---- MODULE Spec2Model ----
(***************************************************************************)
(* A Jupyter kernel running one of the two notebooks of the repository     *)
(* (01_Getting_Started.ipynb, .ipynb_checkpoints/Getting_Started-          *)
(* checkpoint.ipynb) once, cell after cell in document order, against a    *)
(* GRASS spatial database.  A notebook is the sequence of its code cells,  *)
(* a cell the sequence of its statements; every statement is given by the  *)
(* source line it starts on.  The two versions of yourlastname.py that the *)
(* checkpoint notebook writes are programs of their own: the notebook      *)
(* never runs them (its %%python cells raise UsageError), a Python         *)
(* interpreter does, one statement after the other.                        *)
(***************************************************************************)
EXTENDS Integers, Sequences, FiniteSets, TLC

\* ------------------------------------------------------------------ bounds
\* number of tool invocations the environment may make fail in one run
\* although what they need of the session and the database is there
\* (no network, no file, no installation)
MaxFailures == 1
\* most lines v.out.ascii prints for the points layer
MaxPoints == 2
\* number of different points the layer may hold
MaxCoord == 2

\* --------------------------------------------------------- statement shape
\* line : first source line of the statement in the notebook file
\* via  : how the statement reaches the outside world
\*          "py"         plain Python, no external tool
\*          "shell"      a `!` shell-magic line
\*          "subprocess" subprocess.check_output
\*          "gs"         grass.script wrapper (create_project, run_command,
\*                       read_command, parse_command, list_strings)
\*          "gj"         grass.jupyter (init, map methods)
\* tool : the tool or function that is called
\* ins / outs : dataset names read / written
\* eff  : the effect on the kernel or session besides datasets
\* needs: Python names the statement evaluates before the call
\*        ("if coordinates": the statement stands under that `if`)
\* grass: TRUE when the tool only works inside a started GRASS session
St(line, via, tool, ins, outs, eff, needs, grass) ==
    [line |-> line, via |-> via, tool |-> tool, ins |-> ins, outs |-> outs,
     eff |-> eff, needs |-> needs, grass |-> grass]

Py(line, tool, eff, needs) == St(line, "py", tool, {}, {}, eff, needs, FALSE)
Sh(line, tool, ins, outs, eff) == St(line, "shell", tool, ins, outs, eff, {}, TRUE)
Gs(line, tool, ins, outs, eff) == St(line, "gs", tool, ins, outs, eff, {"gs"}, TRUE)
Gj(line, tool, ins, outs) == St(line, "gj", tool, ins, outs, "none", {"gj"}, TRUE)

\* a code cell: whether its source parses as Python, and its statements
Cell(stmts) == [parses |-> TRUE, kind |-> "code", stmts |-> stmts]
BadCell(stmts) == [parses |-> FALSE, kind |-> "code", stmts |-> stmts]

\* a cell that is the one line `%%python yourlastname.py`: a cell magic
\* without a cell body, which IPython refuses before it calls the magic
\* (UsageError); the file is not run
MagicCell(line) == Cell(<< Py(line, "%%python", "none", {"cell body"}) >>)

\* ---------------------------------------------- 01_Getting_Started.ipynb
StdCell01 == Cell(<< Py(51, "import subprocess, sys, Path", "none", {}) >>)
PathCell01 ==
    Cell(<< St(73, "subprocess", "grass --config python_path", {}, {},
               "syspath", {}, FALSE) >>)
ImportCell01 ==
    Cell(<< Py(92, "import grass.script, grass.jupyter", "import", {"syspath"}) >>)
ProjectCell01 ==
    Cell(<< St(120, "gs", "create_project", {}, {}, "project_new", {"gs"}, FALSE) >>)
InitCell01 == Cell(<< St(154, "gj", "init", {}, {}, "session", {"gj"}, FALSE) >>)

\* the cells from `!g.version` to the second `!g.list`
FirstTools01 ==
  << Cell(<< Sh(170, "g.version", {}, {}, "none") >>),
     Cell(<< Sh(181, "g.list", {}, {}, "none") >>),
     Cell(<< Sh(190, "g.region", {}, {}, "none") >>),
     Cell(<< Sh(212, "v.import", {}, {"lagoons"}, "none") >>),
     Cell(<< Sh(223, "g.region", {"lagoons"}, {}, "region_vector") >>),
     Cell(<< Sh(232, "g.region", {}, {}, "region_grow") >>),
     Cell(<< Sh(243, "g.list", {}, {}, "none") >>) >>

ExtCell01 == Cell(<< Sh(263, "g.extension", {}, {}, "r.in.usgs") >>)
UsgsCell01 == Cell(<< Sh(284, "r.in.usgs", {}, {"elevation"}, "none") >>)

\* the cells from the third `!g.list` to the interactive map
Middle01 ==
  << Cell(<< Sh(322, "g.list", {}, {}, "none") >>),
     Cell(<< Sh(331, "r.in.wms", {}, {"ortho"}, "none") >>),
     Cell(<< Sh(375, "g.search.modules", {}, {}, "none") >>),
     Cell(<< Sh(391, "r.univar", {}, {}, "none") >>),
     Cell(<< Gs(433, "g.list", {}, {}, "none") >>),
     Cell(<< >>),
     Cell(<< >>),
     Cell(<< Py(524, "gj.Map", "none", {"gj"}),
             Gj(525, "d.rast", {"elevation"}, {}),
             Gj(526, "d.barscale", {}, {}),
             Gj(527, "d.legend", {"elevation"}, {}),
             Py(528, "show", "none", {}) >>),
     Cell(<< Py(548, "gj.InteractiveMap", "none", {"gj"}),
             Gj(549, "add_raster", {"ortho"}, {}),
             Gj(550, "add_vector", {"lagoons"}, {}),
             Py(551, "add_layer_control", "none", {}),
             Py(552, "show", "none", {}) >>) >>

ReliefCell01 == Cell(<< Gs(570, "r.relief", {"elevation"}, {"relief"}, "none") >>)
ShadeCell01 ==
    Cell(<< Py(579, "gj.Map", "none", {"gj"}),
            Gj(580, "d.shade", {"elevation", "relief"}, {}),
            Gj(581, "d.vect", {"lagoons"}, {}),
            Gj(582, "d.barscale", {}, {}),
            Py(583, "show", "none", {}) >>)

\* the notebook with the shaded map drawn before r.relief has run
Cells01ShadeFirst ==
    << StdCell01, PathCell01, ImportCell01, ProjectCell01, Cell(<< >>), InitCell01 >>
    \o FirstTools01 \o << ExtCell01, UsgsCell01 >> \o Middle01
    \o << ShadeCell01, ReliefCell01 >>

\* the notebook with the session started after the first tool cells
Cells01InitLate ==
    << StdCell01, PathCell01, ImportCell01, ProjectCell01, Cell(<< >>) >>
    \o FirstTools01 \o << InitCell01, ExtCell01, UsgsCell01 >> \o Middle01
    \o << ReliefCell01, ShadeCell01 >>

\* the notebook with r.in.usgs run before g.extension installs it
Cells01UsgsFirst ==
    << StdCell01, PathCell01, ImportCell01, ProjectCell01, Cell(<< >>), InitCell01 >>
    \o FirstTools01 \o << UsgsCell01, ExtCell01 >> \o Middle01
    \o << ReliefCell01, ShadeCell01 >>

Cells01 ==
    << StdCell01, PathCell01, ImportCell01, ProjectCell01, Cell(<< >>), InitCell01 >>
    \o FirstTools01 \o << ExtCell01, UsgsCell01 >> \o Middle01
    \o << ReliefCell01, ShadeCell01 >>

\* ------------------- .ipynb_checkpoints/Getting_Started-checkpoint.ipynb
CellsCkpt ==
  << Cell(<< Py(56, "import subprocess, sys, Path", "none", {}) >>),
     Cell(<< St(78, "subprocess", "grass --config python_path", {}, {},
                "syspath", {}, FALSE) >>),
     Cell(<< Py(97, "import grass.script, grass.jupyter", "import", {"syspath"}) >>),
     Cell(<< St(125, "shell", "grass -e -c", {}, {}, "project_c", {}, FALSE) >>),
     Cell(<< >>),
     Cell(<< >>),
     Cell(<< St(168, "gj", "init", {}, {}, "session", {"gj"}, FALSE) >>),
     Cell(<< Sh(184, "g.version", {}, {}, "none") >>),
     Cell(<< Sh(195, "g.list", {}, {}, "none") >>),
     Cell(<< Sh(204, "g.region", {}, {}, "none") >>),
     Cell(<< Sh(228, "v.import", {}, {"lagoons"}, "none") >>),
     Cell(<< Sh(239, "g.region", {"lagoons"}, {}, "region_vector") >>),
     Cell(<< Sh(248, "g.region", {}, {}, "region_grow") >>),
     Cell(<< Sh(268, "g.extension", {}, {}, "r.in.usgs") >>),
     Cell(<< Sh(288, "r.in.usgs", {}, {"elevation"}, "none") >>),
     Cell(<< Sh(326, "r.in.wms", {}, {"ortho"}, "none") >>),
     Cell(<< Sh(335, "g.list", {}, {}, "none") >>),
     Cell(<< Sh(379, "g.search.modules", {}, {}, "none") >>),
     Cell(<< Sh(395, "r.univar", {}, {}, "none") >>),
     Cell(<< Gs(437, "g.list", {}, {}, "none") >>),
     Cell(<< >>),
     Cell(<< >>),
     Cell(<< Py(528, "gj.Map", "none", {"gj"}),
             Gj(529, "d.rast", {"ortho"}, {}),
             Gj(530, "d.barscale", {}, {}),
             Py(531, "show", "none", {}) >>),
     Cell(<< Py(551, "gj.InteractiveMap", "none", {"gj"}),
             Gj(552, "add_raster", {"elevation"}, {}),
             Gj(553, "add_vector", {"lagoons"}, {}),
             Py(554, "show", "none", {}) >>),
     Cell(<< Gs(614, "r.watershed", {"elevation"}, {"accumulation", "drainage"}, "none") >>),
     Cell(<< Py(625, "gj.InteractiveMap", "none", {"gj"}),
             Gj(626, "add_raster", {"accumulation"}, {}),
             Py(627, "show", "none", {}) >>),
     Cell(<< Gs(638, "r.path", {"drainage", "lagoon_points"}, {"drain"}, "none") >>),
     Cell(<< Py(658, "gj.Map", "none", {"gj"}),
             Gj(659, "d.shade", {"ortho", "relief"}, {}),
             Gj(660, "d.vect", {"drain"}, {}),
             Py(661, "show", "none", {}) >>),
     Cell(<< Gs(686, "g.extension", {}, {}, "r.hand") >>),
     BadCell(<< Gs(706, "r.hand", {"elevation"}, {"hand", "inundation"}, "none") >>),
     Cell(<< Py(725, "gj.TimeSeriesMap", "none", {"gj"}),
             Gj(726, "d.rast", {"relief"}, {}),
             Gj(727, "d.vect", {"lagoons"}, {}),
             Gj(728, "add_raster_series", {"inundation"}, {}),
             Py(729, "show", "none", {}) >>),
     Cell(<< Gs(760, "v.extract", {"streams"}, {"stream_points"}, "none") >>),
     Cell(<< Py(771, "gj.Map", "none", {"gj"}),
             Gj(772, "d.rast", {"relief"}, {}),
             Gj(773, "d.vect", {"streams"}, {}),
             Gj(774, "d.vect", {"stream_points"}, {}),
             Py(775, "show", "none", {}) >>),
     Cell(<< Py(795, "import pandas", "none", {}),
             Gs(797, "v.to.db", {"stream_points"}, {}, "none"),
             Gs(798, "v.db.select", {"stream_points"}, {}, "df"),
             Py(799, "df", "none", {"df"}) >>),
     Cell(<< Py(810, "df.loc[8]", "none", {"df8"}) >>),
     Cell(<< St(830, "gs", "r.water.outlet", {"direction"}, {"basin_15"}, "none",
                {"gs", "df8"}, TRUE),
             Py(831, "gj.Map", "none", {"gj"}),
             Gj(832, "d.shade", {"basin_15", "relief"}, {}),
             Py(833, "show", "none", {}) >>),
     Cell(<< Gs(864, "g.region", {"basin_13"}, {}, "zoom") >>),
     Cell(<< Gs(884, "r.mask", {"basin_15"}, {}, "mask_on") >>),
     Cell(<< Gs(904, "r.slope.aspect", {"elevation"}, {"dx", "dy"}, "none"),
             Gs(905, "r.sim.water", {"elevation", "dx", "dy"}, {"depth"}, "none") >>),
     Cell(<< Gs(926, "t.create", {}, {"depth"}, "none"),
             Gs(933, "g.list", {}, {}, "none"),
             Gs(934, "t.register", {"depth"}, {}, "none") >>),
     Cell(<< Py(945, "gj.TimeSeriesMap", "none", {"gj"}),
             Gj(946, "add_raster_series", {"depth"}, {}),
             Py(947, "show", "none", {}) >>),
     Cell(<< Gs(968, "r.mask", {}, {}, "mask_off"),
             Gs(970, "g.region", {}, {}, "reset") >>),
     Cell(<< Py(1001, "writefile", "write1", {}) >>),
     MagicCell(1032),
     Cell(<< Py(1052, "gj.Map", "none", {"gj"}),
             Gj(1053, "d.rast", {"pcurvature"}, {}),
             Py(1054, "show", "none", {}) >>),
     Cell(<< Py(1074, "writefile", "write2", {}) >>),
     MagicCell(1105),
     Cell(<< Py(1116, "gj.Map", "none", {"gj"}),
             Gj(1117, "d.rast", {"elevation"}, {}),
             Gj(1118, "d.vect", {"drain_vector"}, {}),
             Py(1119, "show", "none", {}) >>) >>

\* the two versions of yourlastname.py that the %%writefile cells write, as
\* run by `python yourlastname.py`: the import, then myanalysis
Script1 ==
  << Py(1002, "import grass.script", "import", {"syspath"}),
     St(1008, "gs", "r.slope.aspect", {"elevation"}, {"pcurvature"}, "none", {}, TRUE) >>

Script2 ==
  << Py(1075, "import grass.script", "import", {"syspath"}),
     St(1080, "gs", "v.out.ascii", {"lagoon_points"}, {}, "points", {}, TRUE),
     St(1089, "gs", "r.drain", {"elevation"}, {"drain", "drain_vector"}, "none",
        {"if coordinates"}, TRUE) >>

Notebooks == {"nb01", "ckpt"}
Scripts == {"script1", "script2"}
Programs == Notebooks \cup Scripts

\* a script is run as one unit, like a notebook of one cell
Cells(n) ==
    CASE n = "nb01" -> Cells01
      [] n = "ckpt" -> CellsCkpt
      [] n = "script1" -> << Cell(Script1) >>
      [] n = "script2" -> << Cell(Script2) >>

\* addon tools: not part of the core distribution, g.extension installs them
Addons == {"r.in.usgs", "r.hand"}

\* dataset names no invocation of the checkpoint notebook writes before use
Unproduced ==
    {"relief", "lagoon_points", "streams", "direction", "basin_13",
     "inundation", "pcurvature", "drain_vector"}

\* contents the spatial database may have when the run starts: `grass -e -c`
\* keeps an existing project, so the datasets of an earlier session survive
InitialDbs == SUBSET Unproduced

\* what the scripts read: set in their __main__ blocks
ScriptDbs == SUBSET {"elevation", "lagoon_points"}

\* attribute tables v.db.select may return for stream_points:
\* n rows with categories off+1 .. off+n, coordinates derived from the category
Table(n, off) == [i \in 1..n |-> [cat |-> i + off, x |-> 100 + i + off, y |-> 200 + i + off]]
StreamTables == {Table(0, 0), Table(9, 0), Table(9, 6), Table(15, 0)}

\* ------------------------------------------------ text and numbers
\* text is a sequence of characters; a coordinate is a number of tenths
\* (12.5 is 125), which is as fine as the coordinates of the points below
Digits == <<"0", "1", "2", "3", "4", "5", "6", "7", "8", "9">>
DigitChar(d) == Digits[d + 1]
DigitVal(ch) == CHOOSE d \in 0..9 : Digits[d + 1] = ch

\* the decimal digits of a natural number
RECURSIVE Dec(_)
Dec(n) == IF n < 10 THEN <<DigitChar(n)>>
          ELSE Append(Dec(n \div 10), DigitChar(n % 10))

\* how v.out.ascii prints a coordinate: no trailing zeros, no trailing point
Format(v) ==
    Dec(v \div 10) \o (IF v % 10 = 0 THEN << >> ELSE <<".", DigitChar(v % 10)>>)

\* the points a vector map may hold: point c has category c
PointX(c) == 10 * (10 + c) + 5
PointY(c) == 10 * (20 + c)

\* outputs v.out.ascii separator=comma may print: one "x,y,cat" line per point
PointText(c) ==
    Format(PointX(c)) \o <<",">> \o Format(PointY(c)) \o <<",">> \o Dec(c) \o <<"\n">>
PointLines == {PointText(c) : c \in 1..MaxCoord}
SeqsUpTo(S, n) == UNION {[1..k -> S] : k \in 0..n}
RECURSIVE Join(_)
Join(ls) == IF ls = << >> THEN << >> ELSE Head(ls) \o Join(Tail(ls))
PointOutputs == {Join(ls) : ls \in SeqsUpTo(PointLines, MaxPoints)}

\* index of the first ch in s, Len(s) + 1 when there is none
Find(s, ch) ==
    IF \E k \in 1..Len(s) : s[k] = ch
    THEN CHOOSE k \in 1..Len(s) : s[k] = ch /\ \A j \in 1..(k - 1) : s[j] # ch
    ELSE Len(s) + 1

\* str.splitlines(): the lines without their line ends; no empty last line
RECURSIVE splitlines(_)
splitlines(s) ==
    IF s = << >> THEN << >>
    ELSE <<SubSeq(s, 1, Find(s, "\n") - 1)>>
             \o splitlines(SubSeq(s, Find(s, "\n") + 1, Len(s)))

\* str.split(sep): the fields between the separators, at least one field
RECURSIVE split(_, _)
split(s, sep) ==
    IF Find(s, sep) > Len(s) THEN <<s>>
    ELSE <<SubSeq(s, 1, Find(s, sep) - 1)>>
             \o split(SubSeq(s, Find(s, sep) + 1, Len(s)), sep)

\* the value of a run of digits
RECURSIVE Nat10(_)
Nat10(s) == IF s = << >> THEN 0
            ELSE 10 * Nat10(SubSeq(s, 1, Len(s) - 1)) + DigitVal(s[Len(s)])

\* float(text) for text of digits with at most one digit after the point
float(s) ==
    10 * Nat10(SubSeq(s, 1, Find(s, ".") - 1))
        + (IF Find(s, ".") < Len(s) THEN DigitVal(s[Find(s, ".") + 1]) ELSE 0)

\* seq[:n]
UpTo(seq, n) == SubSeq(seq, 1, IF Len(seq) < n THEN Len(seq) ELSE n)

\* the second field before the first
get_coordinatesSwapped(text) ==
    LET data == splitlines(text) IN
    [i \in 1..Len(data) |->
        LET point == UpTo(split(data[i], ","), 2) IN
        [j \in 1..Len(point) |-> float(point[Len(point) + 1 - j])]]

\* data = read_command(...).splitlines()
\* [[float(coor) for coor in point.split(",")[:2]] for point in data]
get_coordinates(text) ==
    LET data == splitlines(text) IN
    [i \in 1..Len(data) |->
        LET point == UpTo(split(data[i], ","), 2) IN
        [j \in 1..Len(point) |-> float(point[j])]]

\* ---------------------------------------------- the computational region
\* the region of a project created from an EPSG code: one cell of size 1
DefaultRegion == [n |-> 1, s |-> 0, e |-> 1, w |-> 0, res |-> 1]

\* the bounding box of the vector lagoons (lagoons.gpkg is one file, the
\* same in every run)
LagoonExtents ==
    {[n |-> 129931, s |-> 128829, e |-> 706436, w |-> 704731]}

Up(x, r) == ((x + r - 1) \div r) * r
Down(x, r) == (x \div r) * r

\* flag a: the bounds are moved outwards to multiples of the resolution
Align(b, r) ==
    [n |-> Up(b.n, r), s |-> Down(b.s, r), e |-> Up(b.e, r), w |-> Down(b.w, r),
     res |-> r]

\* g.region -a vector="lagoons" res=10
RegionVector(ext) == Align(ext, 10)

\* g.region grow=200: 200 cells more on every side
RegionGrow(reg) ==
    [n |-> reg.n + 200 * reg.res, s |-> reg.s - 200 * reg.res,
     e |-> reg.e + 200 * reg.res, w |-> reg.w - 200 * reg.res, res |-> reg.res]

\* distance (map units) between the current region and the cells of the
\* basin raster that hold data, on every side
BasinInsets == {300}

\* g.region zoom=<raster> res=6: the smallest box inside the current region
\* that holds the raster's data, with the cell size asked for (without flag a
\* GRASS fits the cell size to the box; the value asked for is recorded)
RegionZoom(reg, d) ==
    IF reg.n - reg.s > 2 * d /\ reg.e - reg.w > 2 * d
    THEN [n |-> reg.n - d, s |-> reg.s + d, e |-> reg.e - d, w |-> reg.w + d,
          res |-> 6]
    ELSE [reg EXCEPT !.res = 6]

\* g.region n=131934 s=126825 w=702726 e=708443 res=3 flags="a"
RegionReset ==
    Align([n |-> 131934, s |-> 126825, e |-> 708443, w |-> 702726], 3)

\* df.loc[label, col]: the row whose index label is `label`; the dataframe
\* has the default index 0, 1, 2, ...
Loc(rows, label, col) == rows[label + 1][col]

\* coordinates=[df.loc[8, 'x'], df.loc[8, 'y']]
OutletCoordinates(rows) == <<Loc(rows, 8, "x"), Loc(rows, 8, "y")>>

VARIABLES
    nb,          \* the notebook or script that is run
    runAll,      \* TRUE: "Run All" (stops at the first exception);
                 \* FALSE: the user runs every cell in turn
    status,      \* "running", "stopped" (Run All hit an exception), "done"
    cell, stmt,  \* position of the kernel: next statement to execute
    waiting,     \* the kernel is blocked in a call to an external tool
    inflight,    \* tool invocations issued and not yet returned
    log,         \* the statements the kernel has started so far, in order:
                 \* [line, cell, how], how = "ran" (a Python statement
                 \* executed), "issued" (a tool was called), "raised"
                 \* (evaluation raised before anything was called)
    db,          \* names of the datasets in the spatial database
    installed,   \* addons installed by g.extension
    syspath,     \* the GRASS python path is on sys.path
    imported,    \* grass.script / grass.jupyter are imported (gs, gj bound)
    project,     \* the project directory exists
    session,     \* gj.init has started the GRASS session
    mask,        \* raster the mask is set on, or "none"
    script,      \* version of yourlastname.py on disk (0: no file)
    df,          \* the dataframe of the v.db.select cell
    vout,        \* what v.out.ascii printed in the script
    coordinates, \* the script's list of coordinate pairs
    failed,      \* source lines of the invocations that failed
    errs,        \* errors shown to the user: [line, kind]
    nfail,       \* failures made by the environment so far
    region,      \* the computational region: bounds and cell size
    zoomedFrom,  \* the region that was in force when g.region zoom= was called
    outlet       \* the coordinates r.water.outlet was called with

vars == <<nb, runAll, status, cell, stmt, waiting, inflight, log, db, installed,
          syspath, imported, project, session, mask, script, df, vout,
          coordinates, failed, errs, nfail, region, zoomedFrom, outlet>>

\* --------------------------------------------------------------- helpers
CurStmts(c) == Cells(nb)[c].stmts

InCell == status = "running" /\ ~waiting /\ cell <= Len(Cells(nb))
AtStmt == InCell /\ Cells(nb)[cell].parses /\ stmt <= Len(CurStmts(cell))
Cur == CurStmts(cell)[stmt]

\* a Python name the statement evaluates is bound (and, for df.loc[8], has
\* a row with index label 8)
Holds(n) ==
    CASE n = "syspath" -> syspath
      [] n = "gs" -> imported
      [] n = "gj" -> imported
      [] n = "df" -> df.defined
      [] n = "df8" -> df.defined /\ Len(df.rows) >= 9
      [] n = "cell body" -> FALSE
      [] OTHER -> TRUE
PyReady(s) == \A n \in s.needs : Holds(n)

\* the exception Python raises when evaluation fails
PyError(s) ==
    IF "cell body" \in s.needs THEN "UsageError"
    ELSE IF ~syspath /\ "syspath" \in s.needs THEN "ModuleNotFoundError"
    ELSE IF "df8" \in s.needs /\ df.defined THEN "KeyError"
    ELSE "NameError"

Entry(s, how) == [line |-> s.line, cell |-> cell, how |-> how]

\* the test of the `if` the wrong way round
SkipsInverted(s) == "if coordinates" \in s.needs /\ coordinates # << >>

\* `if coordinates:` is false for the empty list
Skips(s) == "if coordinates" \in s.needs /\ coordinates = << >>

\* `!` lines started in the background, the kernel going on at once
BlocksNotShell(via) == via # "shell"

\* every call in the notebooks is synchronous: the kernel waits for it
Blocks(via) == TRUE

\* a failing `!` line prints the tool's message and the cell goes on; the
\* wrappers and check_output raise
Raises(via) == via # "shell"

\* what a failed call shows: check_output raises FileNotFoundError when the
\* executable is not found and CalledProcessError when it exits non-zero
ErrorKinds(via) ==
    CASE via = "shell" -> {"tool message"}
      [] via = "subprocess" -> {"FileNotFoundError", "CalledProcessError"}
      [] OTHER -> {"CalledModuleError"}

\* nothing in the notebooks catches an error: it is shown to the user
Surfaced(s, kind) == {[line |-> s.line, kind |-> kind]}

\* the cell that raised is run again
AfterRaiseRetry(c) == [cell |-> c, stmt |-> 1]

\* where the kernel goes on after an exception left cell c
AfterRaise(c) == [cell |-> c + 1, stmt |-> 1]

\* calls that depend on something outside the session and the database: the
\* GRASS installation, the project directory, the file lagoons.gpkg, the
\* addon repository, the USGS and NAIP services
ExternalTools ==
    {"grass --config python_path", "grass -e -c", "create_project", "init",
     "v.import", "g.extension", "r.in.usgs", "r.in.wms"}

\* what a tool requires to succeed
CanSucceed(s) ==
    /\ s.ins \subseteq db
    /\ s.grass => session
    /\ s.tool \in Addons => s.tool \in installed
    /\ s.eff = "project_c" => ~project
    /\ s.eff = "session" => project
    /\ s.eff = "mask_on" => mask = "none"
    /\ s.eff = "mask_off" => mask # "none"

\* ------------------------------------------------------------------ Init
Init ==
    /\ nb \in Programs
    /\ IF nb \in Notebooks THEN runAll \in BOOLEAN ELSE runAll = TRUE
    /\ status = "running"
    /\ cell = 1 /\ stmt = 1
    /\ waiting = FALSE
    /\ inflight = {}
    /\ log = << >>
    /\ IF nb \in Notebooks
       THEN /\ db \in InitialDbs
            /\ syspath = FALSE
            /\ project = (db # {})
            /\ session = FALSE
            /\ script = 0
       ELSE /\ db \in ScriptDbs
            /\ syspath \in BOOLEAN
            /\ project = TRUE
            /\ session = TRUE
            /\ script = IF nb = "script1" THEN 1 ELSE 2
    /\ installed = {}
    /\ imported = FALSE
    /\ mask = "none"
    /\ df = [defined |-> FALSE, rows |-> << >>]
    /\ vout = << >>
    /\ coordinates = << >>
    /\ failed = {}
    /\ errs = {}
    /\ nfail = 0
    /\ region = DefaultRegion
    /\ zoomedFrom = DefaultRegion
    /\ outlet = << >>

\* an exception leaves cell c: Run All stops, otherwise the next cell is run
Abort(c) ==
    IF runAll
    THEN status' = "stopped" /\ UNCHANGED <<cell, stmt>>
    ELSE /\ status' = status
         /\ cell' = AfterRaise(c).cell
         /\ stmt' = AfterRaise(c).stmt

\* --------------------------------------------------------------- actions
\* a statement that calls no external tool executes
ExecPy ==
    /\ AtStmt /\ Cur.via = "py" /\ PyReady(Cur)
    /\ log' = Append(log, Entry(Cur, "ran"))
    /\ stmt' = stmt + 1
    /\ imported' = (imported \/ Cur.eff = "import")
    /\ script' = IF Cur.eff = "write1" THEN 1
                 ELSE IF Cur.eff = "write2" THEN 2 ELSE script
    /\ UNCHANGED <<nb, runAll, status, cell, waiting, inflight, db, installed,
                   syspath, project, session, mask, df, vout, coordinates,
                   failed, errs, nfail>>
    /\ UNCHANGED <<region, zoomedFrom, outlet>>

\* evaluating the statement raises before any tool is called
PyRaise ==
    /\ AtStmt /\ ~PyReady(Cur)
    /\ errs' = errs \cup {[line |-> Cur.line, kind |-> PyError(Cur)]}
    /\ log' = Append(log, Entry(Cur, "raised"))
    /\ Abort(cell)
    /\ UNCHANGED <<nb, runAll, waiting, inflight, db, installed, syspath,
                   imported, project, session, mask, script, df, vout,
                   coordinates, failed, nfail>>
    /\ UNCHANGED <<region, zoomedFrom, outlet>>

\* the cell does not parse: nothing of it runs
SyntaxErr ==
    /\ InCell /\ ~Cells(nb)[cell].parses
    /\ errs' = errs \cup {[line |-> Cells(nb)[cell].stmts[1].line,
                           kind |-> "SyntaxError"]}
    /\ Abort(cell)
    /\ UNCHANGED <<nb, runAll, waiting, inflight, log, db, installed, syspath,
                   imported, project, session, mask, script, df, vout,
                   coordinates, failed, nfail>>
    /\ UNCHANGED <<region, zoomedFrom, outlet>>

\* the statement stands under an `if` whose condition is false
SkipGuarded ==
    /\ AtStmt /\ Cur.via # "py" /\ PyReady(Cur) /\ Skips(Cur)
    /\ stmt' = stmt + 1
    /\ UNCHANGED <<nb, runAll, status, cell, waiting, inflight, log, db,
                   installed, syspath, imported, project, session, mask,
                   script, df, vout, coordinates, failed, errs, nfail>>
    /\ UNCHANGED <<region, zoomedFrom, outlet>>

\* the kernel calls an external tool
Issue ==
    /\ AtStmt /\ Cur.via # "py" /\ PyReady(Cur) /\ ~Skips(Cur)
    /\ inflight' = inflight \cup {[cell |-> cell, idx |-> stmt]}
    /\ log' = Append(log, Entry(Cur, "issued"))
    /\ waiting' = Blocks(Cur.via)
    /\ stmt' = stmt + 1
    /\ UNCHANGED <<nb, runAll, status, cell, db, installed, syspath, imported,
                   project, session, mask, script, df, vout, coordinates,
                   failed, errs, nfail, region>>
    /\ zoomedFrom' = IF Cur.eff = "zoom" THEN region ELSE zoomedFrom
    /\ outlet' = IF Cur.tool = "r.water.outlet"
                 THEN OutletCoordinates(df.rows) ELSE outlet

\* the tool finishes successfully
ReturnOk(i) ==
    LET s == CurStmts(i.cell)[i.idx] IN
    /\ status = "running" /\ i \in inflight /\ CanSucceed(s)
    /\ inflight' = inflight \ {i}
    /\ waiting' = FALSE
    /\ db' = IF s.eff = "project_new" THEN {} ELSE db \cup s.outs
    /\ installed' = IF s.eff \in Addons THEN installed \cup {s.eff} ELSE installed
    /\ syspath' = (syspath \/ s.eff = "syspath")
    /\ project' = (project \/ s.eff \in {"project_new", "project_c"})
    /\ session' = (session \/ s.eff = "session")
    /\ mask' = IF s.eff = "mask_on" THEN CHOOSE n \in s.ins : TRUE
               ELSE IF s.eff = "mask_off" THEN "none" ELSE mask
    /\ IF s.eff = "df"
       THEN \E t \in StreamTables : df' = [defined |-> TRUE, rows |-> t]
       ELSE df' = df
    /\ IF s.eff = "points"
       THEN \E out \in PointOutputs :
                vout' = out /\ coordinates' = get_coordinates(out)
       ELSE UNCHANGED <<vout, coordinates>>
    /\ \/ s.eff = "region_vector" /\ \E ext \in LagoonExtents :
                                            region' = RegionVector(ext)
       \/ s.eff = "region_grow" /\ region' = RegionGrow(region)
       \/ s.eff = "zoom" /\ \E d \in BasinInsets : region' = RegionZoom(region, d)
       \/ s.eff = "reset" /\ region' = RegionReset
       \/ /\ s.eff \notin {"region_vector", "region_grow", "zoom", "reset"}
          /\ region' = region
    /\ UNCHANGED <<nb, runAll, status, cell, stmt, log, imported, script,
                   failed, errs, nfail, zoomedFrom, outlet>>

\* the tool fails: what it needs is missing, or the environment lets it down
ReturnFail(i) ==
    LET s == CurStmts(i.cell)[i.idx] IN
    /\ status = "running" /\ i \in inflight
    /\ \/ ~CanSucceed(s) /\ nfail' = nfail
       \/ /\ CanSucceed(s) /\ s.tool \in ExternalTools
          /\ nfail < MaxFailures /\ nfail' = nfail + 1
    /\ inflight' = inflight \ {i}
    /\ waiting' = FALSE
    /\ failed' = failed \cup {s.line}
    /\ \E kind \in ErrorKinds(s.via) : errs' = errs \cup Surfaced(s, kind)
    /\ IF Raises(s.via) THEN Abort(i.cell) ELSE UNCHANGED <<status, cell, stmt>>
    /\ UNCHANGED <<nb, runAll, log, db, installed, syspath, imported, project,
                   session, mask, script, df, vout, coordinates>>
    /\ UNCHANGED <<region, zoomedFrom, outlet>>

\* the cell is finished, the next one is run
EndCell ==
    /\ InCell /\ Cells(nb)[cell].parses /\ stmt > Len(CurStmts(cell))
    /\ cell' = cell + 1
    /\ stmt' = 1
    /\ UNCHANGED <<nb, runAll, status, waiting, inflight, log, db, installed,
                   syspath, imported, project, session, mask, script, df, vout,
                   coordinates, failed, errs, nfail>>
    /\ UNCHANGED <<region, zoomedFrom, outlet>>

\* the last cell has been run
Finish ==
    /\ status = "running" /\ ~waiting /\ inflight = {}
    /\ cell > Len(Cells(nb))
    /\ status' = "done"
    /\ UNCHANGED <<nb, runAll, cell, stmt, waiting, inflight, log, db,
                   installed, syspath, imported, project, session, mask, script,
                   df, vout, coordinates, failed, errs, nfail>>
    /\ UNCHANGED <<region, zoomedFrom, outlet>>

Next ==
    \/ ExecPy
    \/ PyRaise
    \/ SyntaxErr
    \/ SkipGuarded
    \/ Issue
    \/ \E i \in inflight : ReturnOk(i)
    \/ \E i \in inflight : ReturnFail(i)
    \/ EndCell
    \/ Finish

Spec == Init /\ [][Next]_vars

\* ------------------------------------------------- the notebook as written
\* the statements of a notebook or script in document order, each with the
\* cell it is in
RECURSIVE Flat(_, _)
Flat(cs, c) ==
    IF c > Len(cs) THEN << >>
    ELSE LET ss == cs[c].stmts
         IN [j \in 1..Len(ss) |->
                [line |-> ss[j].line, cell |-> c, parses |-> cs[c].parses, st |-> ss[j]]]
            \o Flat(cs, c + 1)

Static == [n \in Programs |-> Flat(Cells(n), 1)]

\* the same by source line (no two statements start on the same line), with
\* the position in document order
ByLine ==
    [n \in Programs |->
        [l \in {Static[n][j].line : j \in 1..Len(Static[n])} |->
            LET j == CHOOSE j \in 1..Len(Static[n]) : Static[n][j].line = l
            IN [pos |-> j, cell |-> Static[n][j].cell, st |-> Static[n][j].st]]]

\* the statement that starts on a source line
StmtAt(line) == ByLine[nb][line].st

\* the statement of an invocation in flight
InFlightStmt(i) == CurStmts(i.cell)[i.idx]

\* log entries of tool calls made before cell c was started
IssuedBefore(c) == {k \in 1..Len(log) : log[k].how = "issued" /\ log[k].cell < c}

\* --------------------------------------------------------------- claims
\* C1: in 01_Getting_Started.ipynb every dataset name an invocation reads
\* was written by a tool invocation issued in an earlier cell, and as long
\* as nothing has failed the dataset exists in the database.
ThmC1 ==
    nb = "nb01" =>
        \A i \in inflight : \A n \in InFlightStmt(i).ins :
            /\ \E k \in IssuedBefore(i.cell) : n \in StmtAt(log[k].line).outs
            /\ errs = {} => n \in db

\* the last map cell reads elevation, relief and lagoons
WitC1 ==
    /\ nb = "nb01" /\ errs = {}
    /\ \E i \in inflight : InFlightStmt(i).line = 580
    /\ {"elevation", "relief", "lagoons"} \subseteq db

\* C2: the same for the checkpoint notebook -- every dataset name an
\* invocation reads was written by an invocation issued in an earlier cell.
CtrC2 ==
    nb = "ckpt" =>
        \A i \in inflight : \A n \in InFlightStmt(i).ins :
            \E k \in IssuedBefore(i.cell) : n \in StmtAt(log[k].line).outs

\* C3: at most one tool invocation is in flight, and while one is in flight
\* the kernel is blocked in it: no statement and no cell starts.
ThmC3 ==
    /\ Cardinality(inflight) <= 1
    /\ inflight # {} => waiting

\* r.sim.water is in flight, right after r.slope.aspect of the same cell
WitC3 ==
    /\ nb = "ckpt"
    /\ \E i \in inflight : InFlightStmt(i).tool = "r.sim.water"
    /\ \E k \in 1..Len(log) : log[k].line = 904 /\ log[k].how = "issued"

\* position of a source line in the notebook as written
Pos(line) == ByLine[nb][line].pos

\* the line has been started / a tool has been called from it
Started(line) == \E k \in 1..Len(log) : log[k].line = line
IssuedLine(line) == \E k \in 1..Len(log) : log[k].line = line /\ log[k].how = "issued"

\* The log grows by one entry at a time and never shrinks, so a property of
\* all its entries is stated for the newest entry against the older ones.
Newest == log[Len(log)]
Older == 1..(Len(log) - 1)

\* C4: a failed invocation is shown to the user as the error of the tool
\* (a `!` line) or of the wrapper (CalledProcessError, CalledModuleError),
\* nothing of its cell runs after a raised error, and no statement is
\* started a second time in the run.
ThmC4 ==
    /\ log # << >> => \A j \in Older : log[j].line # Newest.line
    /\ \A f \in failed :
          /\ \E e \in errs :
                /\ e.line = f
                /\ e.kind \in IF StmtAt(f).via = "shell" THEN {"tool message"}
                              ELSE IF StmtAt(f).via = "subprocess"
                                   THEN {"FileNotFoundError", "CalledProcessError"}
                                   ELSE {"CalledModuleError"}
          /\ (StmtAt(f).via # "shell" /\ Newest.cell = ByLine[nb][f].cell)
                => Newest.line <= f

\* r.in.usgs failed, so r.slope.aspect failed in the simulation cell for want
\* of the elevation raster, and the run went on to its end
WitC4 ==
    /\ nb = "ckpt" /\ status = "done"
    /\ {288, 904} \subseteq failed /\ ~Started(905) /\ Started(926)

\* the lines from which a tool was called, in the order of the calls
IssuedLines ==
    LET sel == SelectSeq(log, LAMBDA e : e.how = "issued")
    IN [k \in 1..Len(sel) |-> sel[k].line]

\* the tool calls of the cells that parse, in document order
StaticToolLines ==
    LET sel == SelectSeq(Static[nb], LAMBDA e : e.parses /\ e.st.via # "py")
    IN [k \in 1..Len(sel) |-> sel[k].line]

ReachedTools ==
    LET before == SelectSeq(Static[nb], LAMBDA e : e.cell < cell)
        here == IF cell <= Len(Cells(nb))
                THEN [j \in 1..(stmt - 1) |-> [st |-> CurStmts(cell)[j]]]
                ELSE << >>
        calls == SelectSeq([k \in 1..Len(before) |-> [st |-> before[k].st]] \o here,
                           LAMBDA e : /\ e.st.via # "py"
                                      /\ ~("if coordinates" \in e.st.needs
                                            /\ coordinates = << >>))
    IN [k \in 1..Len(calls) |-> calls[k].st.line]

IsGrassCall(s) == s.grass \/ s.tool \in {"gj.Map", "gj.InteractiveMap"}

\* C6: in 01_Getting_Started.ipynb the python path is set before the
\* import, the import precedes gs.create_project, that precedes gj.init, and
\* gj.init precedes every GRASS tool call; as long as nothing has failed the
\* session is running when a GRASS tool is called.
ThmC6 ==
    nb = "nb01" =>
        /\ log # << >> =>
              /\ Newest.line = 92 => \E j \in Older : log[j].line = 73
              /\ Newest.line = 120 => \E j \in Older : log[j].line = 92
              /\ Newest.line = 154 => \E j \in Older : log[j].line = 120
              /\ IsGrassCall(StmtAt(Newest.line))
                    => \E j \in Older : log[j].line = 154
        /\ errs = {} =>
              /\ imported => syspath
              /\ session => imported
              /\ \A i \in inflight : InFlightStmt(i).grass => session

\* the first tool call, !g.version, is in flight in the started session
WitC6 ==
    /\ nb = "nb01" /\ errs = {} /\ session /\ imported /\ syspath
    /\ \E i \in inflight : InFlightStmt(i).line = 170

\* the addon calls of a notebook as written: the cell of the call, the addon,
\* and the lines of the g.extension calls for it that stand in earlier cells
AddonCalls ==
    [n \in Programs |->
        {[cell |-> Static[n][j].cell, tool |-> Static[n][j].st.tool,
          exts |-> {Static[n][k].line : k \in
                      {k \in 1..Len(Static[n]) :
                          /\ Static[n][k].cell < Static[n][j].cell
                          /\ Static[n][k].st.tool = "g.extension"
                          /\ Static[n][k].st.eff = Static[n][j].st.tool}}] :
            j \in {j \in 1..Len(Static[n]) : Static[n][j].st.tool \in Addons}}]

\* C7: an addon tool is called only after g.extension for it was called in
\* an earlier cell (and, as long as nothing has failed, has installed it);
\* and when the kernel comes to the cell of an addon call (r.in.usgs, r.hand)
\* a g.extension call for the addon in an earlier cell has been started and
\* has returned, and if it was issued and did not fail the addon is installed.
ThmC7 ==
    /\ \A i \in inflight :
          InFlightStmt(i).tool \in Addons =>
              /\ \E k \in IssuedBefore(i.cell) :
                    /\ StmtAt(log[k].line).tool = "g.extension"
                    /\ StmtAt(log[k].line).eff = InFlightStmt(i).tool
              /\ errs = {} => InFlightStmt(i).tool \in installed
    /\ \A a \in AddonCalls[nb] :
          cell >= a.cell =>
              \E l \in a.exts :
                  /\ Started(l)
                  /\ \A i \in inflight : InFlightStmt(i).line # l
                  /\ (IssuedLine(l) /\ l \notin failed) => a.tool \in installed

\* the kernel is at the r.hand cell: g.extension has installed r.hand, and
\* r.in.usgs was installed and then called
WitC7 ==
    /\ nb = "ckpt" /\ status = "running" /\ cell = ByLine["ckpt"][706].cell
    /\ IssuedLine(686) /\ 686 \notin failed /\ "r.hand" \in installed
    /\ IssuedLine(268) /\ IssuedLine(288) /\ "r.in.usgs" \in installed

\* the statement of the notebook as written that calls a tool to an effect
ToolStmt(tool, eff) ==
    Static[nb][CHOOSE j \in 1..Len(Static[nb]) :
                  Static[nb][j].st.tool = tool /\ Static[nb][j].st.eff = eff].st

\* C8: the raster r.water.outlet reads is the drainage direction raster that
\* r.watershed wrote and r.path read.
CtrC8 ==
    \A i \in inflight :
        InFlightStmt(i).tool = "r.water.outlet" =>
            /\ InFlightStmt(i).ins \subseteq ToolStmt("r.watershed", "none").outs
            /\ InFlightStmt(i).ins \subseteq ToolStmt("r.path", "none").ins

\* C9: the dataset `g.region zoom=` names is the output of r.water.outlet
\* and the raster of r.mask.
CtrC9 ==
    \A i \in inflight :
        InFlightStmt(i).eff = "zoom" =>
            /\ InFlightStmt(i).ins = ToolStmt("r.water.outlet", "none").outs
            /\ InFlightStmt(i).ins = ToolStmt("r.mask", "mask_on").ins

\* C10: when the environment makes nothing fail, every tool called after
\* the r.mask raster=basin_15 cell and before the r.mask -r cell runs with
\* the mask on basin_15, every tool called after the removal runs without a
\* mask, and at the end of the notebook no mask is set.
CtrC10 ==
    (nb = "ckpt" /\ nfail = 0) =>
        /\ \A i \in inflight :
              /\ (InFlightStmt(i).line > 884 /\ InFlightStmt(i).line < 968)
                    => mask = "basin_15"
              /\ InFlightStmt(i).line > 968 => mask = "none"
        /\ status = "done" => mask = "none"

\* C11: once the cell that removes the mask has reset the region, the region
\* (bounds and cell size) is the one that was in force just before
\* `g.region zoom=... res=6` was called
CtrC11 ==
    (/\ nb = "ckpt"
     /\ IssuedLine(864) /\ IssuedLine(970) /\ 970 \notin failed
     /\ \A i \in inflight : InFlightStmt(i).line # 970)
        => region = zoomedFrom

\* C12: the coordinates r.water.outlet is called with are the x and y of the
\* stream point whose category is 15, whatever the attribute table holds
CtrC12 ==
    (nb = "ckpt" /\ IssuedLine(830)) =>
        \E k \in 1..Len(df.rows) :
            df.rows[k].cat = 15 /\ outlet = <<df.rows[k].x, df.rows[k].y>>

\* C13: once the r.hand cell has been run r.hand has been invoked, and when
\* the next cell calls add_raster_series("inundation") the time series
\* `inundation` exists
CtrC13 ==
    nb = "ckpt" =>
        /\ cell > ByLine["ckpt"][706].cell => IssuedLine(706)
        /\ \A i \in inflight :
               InFlightStmt(i).line = 728 => "inundation" \in db

\* the number of lines of a text that ends every line with a line end
NumLines(text) == Cardinality({k \in 1..Len(text) : text[k] = "\n"})

\* what v.out.ascii prints for the points ps, with the pairs <<x, y>> of
\* those points
PrintedPoints ==
    {<<Join([i \in 1..Len(ps) |-> PointText(ps[i])]),
       [i \in 1..Len(ps) |-> <<PointX(ps[i]), PointY(ps[i])>>]>> :
         ps \in SeqsUpTo(1..MaxCoord, MaxPoints)}

\* C14: when v.out.ascii has printed the points ps, one "x,y,cat" line each,
\* get_coordinates returns the pairs <<x, y>> of those points in the order of
\* the lines: as many pairs as there are lines, none for an empty output
ThmC14 ==
    (/\ IssuedLine(1080) /\ 1080 \notin failed
     /\ \A i \in inflight : InFlightStmt(i).line # 1080)
        => /\ Len(coordinates) = NumLines(vout)
           /\ vout = << >> => coordinates = << >>
           /\ <<vout, coordinates>> \in PrintedPoints

\* v.out.ascii printed two different points and get_coordinates returned
WitC14 ==
    /\ IssuedLine(1080) /\ 1080 \notin failed
    /\ \A i \in inflight : InFlightStmt(i).line # 1080
    /\ NumLines(vout) >= 2
    /\ Len(coordinates) >= 2 /\ coordinates[1] # coordinates[2]

====
